---- MODULE Spec2Model ----
(***************************************************************************)
(* Model of purl: target normalisation (internal/target), transport and    *)
(* trust policy (internal/transport), protocol detection                   *)
(* (internal/protocol) and the run() workflow of cmd/purl.                 *)
(*                                                                         *)
(* Strings that the code scans character by character (the raw target)     *)
(* are sequences of one-character strings; everything derived from them    *)
(* (scheme, host, path) is converted to a TLA+ string with Str.             *)
(* Durations are whole seconds.                                            *)
(***************************************************************************)
EXTENDS Integers, Sequences, FiniteSets, TLC

VARIABLES
    pc,            \* position in main()/run(): "main", "start", "detect", "fallback", "probed", "done"
    opts,          \* *cli.Options handed to run()
    parsedTarget,  \* *target.ParsedTarget, NilTarget before/without a successful parse
    httpResult,    \* DetectProtocol's local httpResult (auto mode)
    probeResult,   \* the *ProbeResult run() holds
    attempts,      \* log of the calls made: one record per probe attempt / real request
    openHandles,   \* response bodies obtained and not yet closed
    output,        \* what run() handed to handler.WriteResponse
    exitCode,      \* process exit status, -1 while running
    finalErr,      \* the error the invocation ended with, Nil if none
    detectErr      \* the error DetectProtocol returned beside its result

vars == <<pc, opts, parsedTarget, httpResult, probeResult, attempts,
          openHandles, output, exitCode, finalErr, detectErr>>

-----------------------------------------------------------------------------
(* Character-level helpers (Go strings package)                            *)

Letters == {"h", "t", "p", "s", "a", "H", "T", "P", "S"}
Digits == {"0", "1", "2", "5", "8"}

DigitVal(c) ==
    CASE c = "0" -> 0 [] c = "1" -> 1 [] c = "2" -> 2 [] c = "5" -> 5
      [] c = "8" -> 8 [] OTHER -> 0

\* variant: letters keep their case
ToLower_KeepCase(c) == c

ToLower(c) ==
    CASE c = "H" -> "h" [] c = "T" -> "t" [] c = "P" -> "p" [] c = "S" -> "s"
      [] OTHER -> c

RECURSIVE Str(_)
Str(s) == IF s = <<>> THEN "" ELSE Head(s) \o Str(Tail(s))

RECURSIVE LowerSeq(_)
LowerSeq(s) == IF s = <<>> THEN <<>> ELSE <<ToLower(Head(s))>> \o LowerSeq(Tail(s))

From(s, i) == SubSeq(s, i, Len(s))

HasPrefix(s, p) == Len(s) >= Len(p) /\ SubSeq(s, 1, Len(p)) = p

\* strings.Contains(s, sub)
StringsContains(s, sub) ==
    \E i \in 1..(Len(s) + 1) : i + Len(sub) - 1 <= Len(s) /\ SubSeq(s, i, i + Len(sub) - 1) = sub

\* strings.Index(s, c) for a one-character c, 1-based; 0 when absent
Index(s, c) ==
    IF \E i \in 1..Len(s) : s[i] = c
      THEN CHOOSE i \in 1..Len(s) : s[i] = c /\ \A j \in 1..(i - 1) : s[j] # c
      ELSE 0

\* strings.LastIndex(s, c) for a one-character c, 1-based; 0 when absent
LastIndex(s, c) ==
    IF \E i \in 1..Len(s) : s[i] = c
      THEN CHOOSE i \in 1..Len(s) : s[i] = c /\ \A j \in (i + 1)..Len(s) : s[j] # c
      ELSE 0

AllDigits(s) == \A i \in 1..Len(s) : s[i] \in Digits

-----------------------------------------------------------------------------
(* net.SplitHostPort, net.ParseIP, net/url                                  *)

\* net.SplitHostPort for inputs without brackets: the last colon separates
\* host and port; no colon, or a second colon in the host, is an error.
SplitHostPort(hostPort) ==
    LET i == LastIndex(hostPort, ":") IN
    IF i = 0 THEN [ok |-> FALSE, host |-> <<>>, port |-> <<>>]
    ELSE IF Index(SubSeq(hostPort, 1, i - 1), ":") # 0
      THEN [ok |-> FALSE, host |-> <<>>, port |-> <<>>]
      ELSE [ok |-> TRUE, host |-> SubSeq(hostPort, 1, i - 1), port |-> From(hostPort, i + 1)]

RECURSIVE DecValue(_)
DecValue(s) == IF s = <<>> THEN 0 ELSE 10 * DecValue(SubSeq(s, 1, Len(s) - 1)) + DigitVal(s[Len(s)])

\* one decimal field of a dotted quad: 1..3 digits, no leading zero, at most 255
IPv4Field(s) ==
    /\ Len(s) >= 1 /\ Len(s) <= 3
    /\ AllDigits(s)
    /\ (Len(s) > 1 => s[1] # "0")
    /\ DecValue(s) <= 255

RECURSIVE DottedFields(_, _)
DottedFields(s, n) ==
    LET i == Index(s, ".") IN
    IF n = 1 THEN IPv4Field(s)
    ELSE i # 0 /\ IPv4Field(SubSeq(s, 1, i - 1)) /\ DottedFields(From(s, i + 1), n - 1)

\* net.ParseIP(s) != nil, for the dotted-quad form (the inputs of this model
\* contain no IPv6 literal)
ParseIPOk(s) == DottedFields(s, 4)

\* isIPAddress: brackets are trimmed first; the alphabet has none
isIPAddress(host) == ParseIPOk(host)

\* url.validOptionalPort
validOptionalPort(port) ==
    port = <<>> \/ (port[1] = ":" /\ AllDigits(Tail(port)))

\* url.getScheme
RECURSIVE getSchemeAt(_, _)
getSchemeAt(s, i) ==
    IF i > Len(s) THEN [ok |-> TRUE, scheme |-> <<>>, rest |-> s]
    ELSE IF s[i] \in Letters THEN getSchemeAt(s, i + 1)
    ELSE IF s[i] \in Digits \cup {"+", "-", "."}
      THEN IF i = 1 THEN [ok |-> TRUE, scheme |-> <<>>, rest |-> s]
           ELSE getSchemeAt(s, i + 1)
    ELSE IF s[i] = ":"
      THEN IF i = 1 THEN [ok |-> FALSE, scheme |-> <<>>, rest |-> <<>>]
           ELSE [ok |-> TRUE, scheme |-> SubSeq(s, 1, i - 1), rest |-> From(s, i + 1)]
    ELSE [ok |-> TRUE, scheme |-> <<>>, rest |-> s]

getScheme(s) == getSchemeAt(s, 1)

URLError == [ok |-> FALSE, Scheme |-> "", Host |-> <<>>, Path |-> <<>>]

\* url.Parse for inputs without '#', '?', '@', '%', '[' and control bytes.
\* Host and Path stay character sequences, Scheme is lower-cased.
urlParse(raw) ==
    LET g == getScheme(raw) IN
    IF ~g.ok THEN URLError
    ELSE
      LET scheme == Str(LowerSeq(g.scheme))
          rest == g.rest
          slash == Index(rest, "/")
          segment == IF slash = 0 THEN rest ELSE SubSeq(rest, 1, slash - 1)
      IN
      IF ~HasPrefix(rest, <<"/">>) /\ scheme # ""
        THEN [ok |-> TRUE, Scheme |-> scheme, Host |-> <<>>, Path |-> <<>>]   \* opaque URL
      ELSE IF ~HasPrefix(rest, <<"/">>) /\ Index(segment, ":") # 0
        THEN URLError               \* first path segment in URL cannot contain colon
      ELSE IF (scheme # "" \/ ~HasPrefix(rest, <<"/", "/", "/">>)) /\ HasPrefix(rest, <<"/", "/">>)
        THEN
          LET auth == From(rest, 3)
              k == Index(auth, "/")
              authority == IF k = 0 THEN auth ELSE SubSeq(auth, 1, k - 1)
              path == IF k = 0 THEN <<>> ELSE From(auth, k)
              c == LastIndex(authority, ":")
          IN
          IF c # 0 /\ ~validOptionalPort(From(authority, c))
            THEN URLError           \* invalid port after host
            ELSE [ok |-> TRUE, Scheme |-> scheme, Host |-> authority, Path |-> path]
      ELSE [ok |-> TRUE, Scheme |-> scheme, Host |-> <<>>, Path |-> rest]

\* (*url.URL).Hostname
Hostname(u) ==
    LET c == LastIndex(u.Host, ":") IN
    IF c # 0 /\ validOptionalPort(From(u.Host, c))
      THEN SubSeq(u.Host, 1, c - 1) ELSE u.Host

\* (*url.URL).Port
Port(u) ==
    LET c == LastIndex(u.Host, ":") IN
    IF c # 0 /\ validOptionalPort(From(u.Host, c))
      THEN From(u.Host, c + 1) ELSE <<>>

\* (*url.URL).String for a URL with a host: scheme://host + path
URLString(u) ==
    (IF u.Scheme # "" THEN u.Scheme \o ":" ELSE "")
      \o (IF u.Scheme # "" \/ u.Host # <<>> THEN "//" \o Str(u.Host) ELSE "")
      \o Str(u.Path)

-----------------------------------------------------------------------------
(* internal/errors                                                          *)

Nil == [type |-> "nil"]

URLParseError(input, message) ==
    [type |-> "URLParseError", Input |-> input, Message |-> message]
ConnectionError(host, port, cause) ==
    [type |-> "ConnectionError", Host |-> host, Port |-> port, Cause |-> cause]
TimeoutError(duration, phase) ==
    [type |-> "TimeoutError", Duration |-> duration, Phase |-> phase]
TLSError(host, cause) ==
    [type |-> "TLSError", Host |-> host, Cause |-> cause]
NoRouteError(host, cause) ==
    [type |-> "NoRouteError", Host |-> host, Cause |-> cause]

ExitSuccess == 0
ExitUnknownFlag == 2
ExitURLParse == 3
ExitNoRoute == 6
ExitConnectFailed == 7
ExitTimeout == 28
ExitTLSError == 35

\* variant: the unknown-flag case is missing from the switch
MapErrorToExitCode_NoUnknownFlag(err) ==
    IF err = Nil THEN ExitSuccess
    ELSE CASE err.type = "URLParseError" -> ExitURLParse
           [] err.type = "NoRouteError" -> ExitNoRoute
           [] err.type = "ConnectionError" -> ExitConnectFailed
           [] err.type = "TimeoutError" -> ExitTimeout
           [] err.type = "TLSError" -> ExitTLSError
           [] OTHER -> ExitConnectFailed

MapErrorToExitCode(err) ==
    IF err = Nil THEN ExitSuccess
    ELSE CASE err.type = "URLParseError" -> ExitURLParse
           [] err.type = "UnknownFlagError" -> ExitUnknownFlag
           [] err.type = "NoRouteError" -> ExitNoRoute
           [] err.type = "ConnectionError" -> ExitConnectFailed
           [] err.type = "TimeoutError" -> ExitTimeout
           [] err.type = "TLSError" -> ExitTLSError
           [] OTHER -> ExitConnectFailed

-----------------------------------------------------------------------------
(* internal/target                                                          *)

NilURL == [Scheme |-> "", Host |-> <<>>, Path |-> <<>>]

NilTarget ==
    [nil |-> TRUE, URL |-> NilURL, IsIP |-> FALSE, HasExplicitProto |-> FALSE,
     OriginalInput |-> <<>>]

Target(u, isIP, explicit, input) ==
    [nil |-> FALSE, URL |-> [Scheme |-> u.Scheme, Host |-> u.Host, Path |-> u.Path],
     IsIP |-> isIP, HasExplicitProto |-> explicit, OriginalInput |-> input]

ParseTarget(input) ==
    IF input = <<>>
      THEN [result |-> NilTarget, err |-> URLParseError(input, "target cannot be empty")]
    ELSE IF StringsContains(input, <<":", "/", "/">>)
      THEN
        LET parsedURL == urlParse(input) IN
        IF ~parsedURL.ok
          THEN [result |-> NilTarget, err |-> URLParseError(input, "invalid URL")]
        ELSE IF parsedURL.Host = <<>>
          THEN [result |-> NilTarget, err |-> URLParseError(input, "URL must contain a host")]
        ELSE [result |-> Target(parsedURL, isIPAddress(Hostname(parsedURL)), TRUE, input),
              err |-> Nil]
    ELSE
      LET slashIdx == Index(input, "/")
          hostPort == IF slashIdx # 0 THEN SubSeq(input, 1, slashIdx - 1) ELSE input
          path == IF slashIdx # 0 THEN From(input, slashIdx) ELSE <<"/">>
          hp == SplitHostPort(hostPort)
          host == IF hp.ok THEN hp.host ELSE hostPort
          port == IF hp.ok THEN hp.port ELSE <<>>
          urlStr == IF port # <<>>
                      THEN <<"h", "t", "t", "p", ":", "/", "/">> \o host \o <<":">> \o port \o path
                      ELSE <<"h", "t", "t", "p", ":", "/", "/">> \o host \o path
          parsedURL == urlParse(urlStr)
      IN
      IF host = <<>>
        THEN [result |-> NilTarget, err |-> URLParseError(input, "target must contain a host")]
      ELSE IF ~parsedURL.ok
        THEN [result |-> NilTarget, err |-> URLParseError(input, "invalid target format")]
      ELSE [result |-> Target(parsedURL, isIPAddress(host), FALSE, input), err |-> Nil]

-----------------------------------------------------------------------------
(* internal/transport                                                       *)

DefaultTimeout == 10

\* the file system the invocation runs against
ReadFileOk(path) == path \in {"ca.pem", "garbage.pem"}
AppendCertsFromPEMOk(path) == path = "ca.pem"
LoadX509KeyPairOk(cert, key) == cert = "cert.pem" /\ key = "key.pem"

NilTransport ==
    [nil |-> TRUE, DialTimeout |-> 0, TLSHandshakeTimeout |-> 0,
     InsecureSkipVerify |-> FALSE, RootCAs |-> "", Certificates |-> FALSE]

\* variant: --strict-ssl also overrides -k/--insecure
InsecureSkipVerify_StrictWins(o, pt) ==
    IF pt.IsIP /\ ~o.StrictSSL THEN TRUE
    ELSE IF o.Insecure /\ ~o.StrictSSL THEN TRUE
    ELSE FALSE

\* lines 31-38 of NewTransport: tlsConfig.InsecureSkipVerify
InsecureSkipVerify(o, pt) ==
    IF pt.IsIP /\ ~o.StrictSSL THEN TRUE
    ELSE IF o.Insecure THEN TRUE
    ELSE FALSE

\* variant: the CA file is not looked at when -k/--insecure is given
CACertCheck_SkippedWhenInsecure(o) ==
    IF o.CACert = "" \/ o.Insecure THEN "ok"
    ELSE IF ~ReadFileOk(o.CACert) THEN "read"
    ELSE IF ~AppendCertsFromPEMOk(o.CACert) THEN "parse"
    ELSE "ok"

\* lines 46-65 of NewTransport: "ok", "read", "parse"
CACertCheck(o) ==
    IF o.CACert = "" THEN "ok"
    ELSE IF ~ReadFileOk(o.CACert) THEN "read"
    ELSE IF ~AppendCertsFromPEMOk(o.CACert) THEN "parse"
    ELSE "ok"

\* variant: a certificate without a key is silently ignored
ClientCertCheck_CertAlone(o) ==
    IF o.Cert # "" /\ o.Key # ""
      THEN IF LoadX509KeyPairOk(o.Cert, o.Key) THEN "ok" ELSE "load"
    ELSE IF o.Key # "" THEN "key-without-cert"
    ELSE "ok"

\* lines 67-88 of NewTransport: "ok", "load", "cert-without-key", "key-without-cert"
ClientCertCheck(o) ==
    IF o.Cert # "" /\ o.Key # ""
      THEN IF LoadX509KeyPairOk(o.Cert, o.Key) THEN "ok" ELSE "load"
    ELSE IF o.Cert # "" THEN "cert-without-key"
    ELSE IF o.Key # "" THEN "key-without-cert"
    ELSE "ok"

NewTransport(o, pt) ==
    LET host == IF ~pt.nil THEN Str(pt.URL.Host) ELSE "unknown"
        tr == [nil |-> FALSE, DialTimeout |-> o.ConnectTimeout,
               TLSHandshakeTimeout |-> o.ConnectTimeout,
               InsecureSkipVerify |-> InsecureSkipVerify(o, pt),
               RootCAs |-> o.CACert,
               Certificates |-> (o.Cert # "" /\ o.Key # "")]
    IN
    IF CACertCheck(o) = "read"
      THEN [tr |-> NilTransport, err |-> TLSError(host, "failed to read CA certificate")]
    ELSE IF CACertCheck(o) = "parse"
      THEN [tr |-> NilTransport, err |-> TLSError(host, "failed to parse CA certificate")]
    ELSE IF ClientCertCheck(o) = "load"
      THEN [tr |-> NilTransport, err |-> TLSError(host, "failed to load client certificate")]
    ELSE IF ClientCertCheck(o) = "cert-without-key"
      THEN [tr |-> NilTransport, err |-> TLSError(host, "--cert requires --key to be specified")]
    ELSE IF ClientCertCheck(o) = "key-without-cert"
      THEN [tr |-> NilTransport, err |-> TLSError(host, "--key requires --cert to be specified")]
    ELSE [tr |-> tr, err |-> Nil]

ApplyTimeouts(o) == IF o.Timeout > 0 THEN o.Timeout ELSE DefaultTimeout

-----------------------------------------------------------------------------
(* internal/protocol                                                        *)

AutoHTTPTimeout == 3
AutoHTTPSTimeout == 7

NilResponse == [nil |-> TRUE, StatusCode |-> 0, from |-> ""]

NilResult ==
    [nil |-> TRUE, Protocol |-> "", StatusCode |-> 0, Duration |-> 0,
     Response |-> NilResponse, Error |-> Nil]

\* the characters of a scheme the detector or run() writes into the URL
Chars(proto) ==
    IF proto = "https" THEN <<"h", "t", "t", "p", "s">>
    ELSE IF proto = "http" THEN <<"h", "t", "t", "p">>
    ELSE <<>>

\* http.NewRequestWithContext fails when the method is invalid or the URL
\* string does not parse; the methods used here are valid tokens
NewRequestOk(u) == urlParse(Chars(u.Scheme) \o <<":", "/", "/">> \o u.Host \o u.Path).ok

\* variant: a scheme written in the target is kept
constructURL_KeepExplicit(pt, proto) ==
    IF pt.HasExplicitProto THEN pt.URL ELSE [pt.URL EXCEPT !.Scheme = proto]

constructURL(pt, proto) == [pt.URL EXCEPT !.Scheme = proto]

\* contains() as written in the detector
contains(s, substr) ==
    Len(s) >= Len(substr)
      /\ (s = substr \/ Len(substr) = 0 \/ (Len(s) > 0 /\ Len(substr) > 0))

\* variant: every error is dropped
mapProbeError_Swallow(err, pt) == Nil

\* variant: the text rules are tried before the timeout test
mapProbeError_TextFirst(err, pt) ==
    LET errStr == err.text
        host == Str(Hostname(pt.URL))
    IN
    IF err = Nil THEN Nil
    ELSE IF ~pt.nil /\ host # "" /\ contains(errStr, "connection refused")
      THEN ConnectionError(host, Str(Port(pt.URL)), errStr)
    ELSE IF ~pt.nil /\ host # ""
            /\ (contains(errStr, "no such host") \/ contains(errStr, "name resolution"))
      THEN NoRouteError(host, errStr)
    ELSE IF ~pt.nil /\ host # ""
            /\ (contains(errStr, "certificate") \/ contains(errStr, "tls") \/ contains(errStr, "ssl"))
      THEN TLSError(host, errStr)
    ELSE IF err.timeout THEN TimeoutError(0, "request")
    ELSE ConnectionError("unknown", "unknown", errStr)

mapProbeError(err, pt) ==
    LET errStr == err.text
        host == Str(Hostname(pt.URL))
    IN
    IF err = Nil THEN Nil
    ELSE IF err.timeout THEN TimeoutError(0, "request")
    ELSE IF ~pt.nil /\ host # "" /\ contains(errStr, "connection refused")
      THEN ConnectionError(host, Str(Port(pt.URL)), errStr)
    ELSE IF ~pt.nil /\ host # ""
            /\ (contains(errStr, "no such host") \/ contains(errStr, "name resolution"))
      THEN NoRouteError(host, errStr)
    ELSE IF ~pt.nil /\ host # ""
            /\ (contains(errStr, "certificate") \/ contains(errStr, "tls") \/ contains(errStr, "ssl"))
      THEN TLSError(host, errStr)
    ELSE ConnectionError("unknown", "unknown", errStr)

\* the text of an error message kept as the sequence of its fragments
RECURSIVE Join(_)
Join(parts) == IF parts = <<>> THEN "" ELSE Head(parts) \o Join(Tail(parts))

\* *url.Error returned by client.Do: Error() is Op "URL": cause
URLErr(op, u, oc) ==
    [type |-> "url.Error", timeout |-> oc.timeout,
     text |-> op \o " \"" \o URLString(u) \o "\": " \o Join(oc.cause),
     parts |-> oc.cause]

\* variant: the copy keeps the user's connect timeout
ProbeOpts_KeepConnect(o, timeout) == [o EXCEPT !.Timeout = timeout]

\* probeProtocolWithTimeout, lines 66-69: the copy of the options a probe uses
ProbeOpts(o, timeout) == [o EXCEPT !.Timeout = timeout, !.ConnectTimeout = timeout]

\* variant: the probe is made with the user's method
ProbeMethod_UserMethod(o) ==
    IF o.Method # "" THEN o.Method
    ELSE IF o.Data # "" \/ o.DataRaw # "" THEN "POST"
    ELSE IF o.Head THEN "HEAD"
    ELSE "GET"

\* probeProtocolWithTimeout, line 92: the request a probe sends
ProbeMethod(o) == "HEAD"
ProbeBody(o) == ""

\* One call of probeProtocolWithTimeout; oc is what the network answers to
\* client.Do.  Returns the ProbeResult and the record of the attempt.
probeProtocolWithTimeout(pt, o, proto, timeout, oc) ==
    LET probeOpts == ProbeOpts(o, timeout)
        nt == NewTransport(probeOpts, pt)
        probeURL == constructURL(pt, proto)
        base == [nil |-> FALSE, Protocol |-> proto, StatusCode |-> 0, Duration |-> 0,
                 Response |-> NilResponse, Error |-> Nil]
        att == [kind |-> "probe", scheme |-> proto, method |-> ProbeMethod(o),
                body |-> ProbeBody(o),
                url |-> URLString(probeURL), ctxTimeout |-> timeout,
                clientTimeout |-> timeout, dialTimeout |-> nt.tr.DialTimeout,
                handshakeTimeout |-> nt.tr.TLSHandshakeTimeout,
                skipVerify |-> nt.tr.InsecureSkipVerify,
                transportErr |-> nt.err, dispatched |-> FALSE, raw |-> Nil]
    IN
    IF nt.err # Nil
      THEN [result |-> [base EXCEPT !.Error = nt.err], attempt |-> att]
    ELSE IF ~NewRequestOk(probeURL)
      THEN [result |-> [base EXCEPT !.Error = [type |-> "wrapError",
                                               text |-> "failed to create request"]],
            attempt |-> att]
    ELSE IF oc.kind = "error"
      THEN [result |-> [base EXCEPT !.Duration = oc.elapsed,
                                    !.Error = mapProbeError(URLErr("Head", probeURL, oc), pt)],
            attempt |-> [att EXCEPT !.dispatched = TRUE,
                                    !.raw = URLErr("Head", probeURL, oc)]]
    ELSE [result |-> [base EXCEPT !.Duration = oc.elapsed,
                                  !.Response = [nil |-> FALSE, StatusCode |-> oc.status,
                                                from |-> "probe-" \o proto],
                                  !.StatusCode = oc.status],
          attempt |-> [att EXCEPT !.dispatched = TRUE]]

probeProtocol(pt, o, proto, oc) ==
    probeProtocolWithTimeout(pt, o, proto, ApplyTimeouts(o), oc)

\* variant: only --proto https is taken as manual
ManualMode_HTTPSOnly(o) == o.Proto = "https"

\* DetectProtocol, first branch test
ManualMode(o) == o.Proto # "" /\ o.Proto # "auto"

\* variant: only 2xx counts as success
HTTPSucceeded_2xxOnly(r) == r.Error = Nil /\ r.StatusCode >= 200 /\ r.StatusCode < 300

\* variant: any response counts as success
HTTPSucceeded_AnyResponse(r) == r.Error = Nil

\* DetectProtocol, line 37
HTTPSucceeded(r) == r.Error = Nil /\ r.StatusCode >= 200 /\ r.StatusCode < 400

\* variant: a failed HTTPS attempt reverts to the HTTP response
AutoFinalResult_RevertToHTTP(httpR, httpsR) ==
    IF httpsR.Error = Nil THEN httpsR
    ELSE IF httpR.Error = Nil THEN httpR
    ELSE httpsR

\* variant: the time of the HTTP attempt is added to the HTTPS attempt's
AutoFinalResult_Cumulative(httpR, httpsR) ==
    [httpsR EXCEPT !.Duration = httpR.Duration + httpsR.Duration]

\* DetectProtocol, lines 43-50: what is returned once HTTPS was attempted
AutoFinalResult(httpR, httpsR) ==
    IF httpsR.Error = Nil THEN httpsR ELSE httpsR

-----------------------------------------------------------------------------
(* internal/request                                                         *)

BuildMethod(o) ==
    IF o.Method # "" THEN o.Method
    ELSE IF o.Data # "" \/ o.DataRaw # "" THEN "POST"
    ELSE IF o.Head THEN "HEAD"
    ELSE "GET"

BuildBody(o) ==
    IF o.DataRaw # "" THEN o.DataRaw
    ELSE IF o.Data # "" THEN o.Data
    ELSE ""

-----------------------------------------------------------------------------
(* Inputs                                                                   *)

\* raw target strings given on the command line
AllTargets ==
    << <<"h", ":", "8">>,                                              \* h:8
       <<"h", "t", "t", "p", "s", ":", "/", "/", "h", "/">>,          \* https://h/
       <<"1", ".", "1", ".", "1", ".", "1", ":", "8", "/", "a">>,     \* 1.1.1.1:8/a
       <<>>,                                                           \* empty
       <<"h", "t", "t", "p", ":", "/", "/", "1", ".", "1", ".", "1", ".", "1">>,  \* http://1.1.1.1
       <<"h", "t", "t", "p", ":", "/", "/">>,                          \* http://
       <<"h">>,                                                        \* h
       <<"h", ":", "a">>,                                              \* h:a
       <<":", "8">>,                                                   \* :8
       <<"H", "T", "T", "P", ":", "/", "/", "h", ":", "8">> >>      \* HTTP://h:8

NumTargets == 7
Targets == {AllTargets[i] : i \in 1..(IF NumTargets <= Len(AllTargets) THEN NumTargets ELSE Len(AllTargets))}

Protos == {"", "auto", "http", "https"}
UserTimeouts == {0, 5}
UserConnectTimeouts == {0, 2}
CACerts == {"", "ca.pem", "missing.pem", "garbage.pem"}
Certs == {"", "cert.pem"}
Keys == {"", "key.pem"}
Methods == {""}
Datas == {""}

\* status codes a server may answer with
Statuses == {199, 200, 399, 400, 500}

\* seconds a completed exchange may take
MaxElapsed == 1
Elapsed(timeout) == {e \in 1..MaxElapsed : e <= timeout}

NoOutcome == [kind |-> "none"]

\* What client.Do can come back with for one request: a response, a timeout
\* after the client's timeout, a refused connection, a failed lookup (host
\* names only), an aborted connection, a TLS handshake against a plain-HTTP
\* server, or a certificate that does not verify (only when verified).
Outcomes(pt, scheme, tr, timeout) ==
    {[kind |-> "response", status |-> st, elapsed |-> e] :
        st \in Statuses, e \in Elapsed(timeout)}
    \cup {[kind |-> "error", timeout |-> TRUE, elapsed |-> timeout,
           cause |-> <<"context deadline exceeded",
                       " (Client.Timeout exceeded while awaiting headers)">>]}
    \cup {[kind |-> "error", timeout |-> FALSE, elapsed |-> 1, cause |-> c] :
           c \in {<<"dial tcp: connect: ", "connection refused">>, <<"EOF">>}}
    \cup (IF pt.IsIP THEN {}
          ELSE {[kind |-> "error", timeout |-> FALSE, elapsed |-> 1,
                 cause |-> <<"dial tcp: lookup ", Str(Hostname(pt.URL)), ": ",
                             "no such host">>]})
    \cup (IF scheme = "https"
          THEN {[kind |-> "error", timeout |-> FALSE, elapsed |-> 1,
                 cause |-> <<"http: server gave HTTP response to HTTPS client">>]}
          ELSE {})
    \cup (IF scheme = "https" /\ ~tr.InsecureSkipVerify
          THEN {[kind |-> "error", timeout |-> FALSE, elapsed |-> 1,
                 cause |-> <<"tls", ": failed to verify ", "certificate", ": x509: ",
                             "certificate", " signed by unknown authority">>]}
          ELSE {})

\* outcomes a probe attempt can see; none is consulted when the transport
\* or the request cannot be built
ProbeOutcomes(pt, o, proto, timeout) ==
    LET nt == NewTransport(ProbeOpts(o, timeout), pt) IN
    IF nt.err # Nil \/ ~NewRequestOk(constructURL(pt, proto)) THEN {NoOutcome}
    ELSE Outcomes(pt, proto, nt.tr, timeout)

-----------------------------------------------------------------------------
(* cmd/purl: run()                                                          *)

\* what urfave/cli's app.Run returns in ParseArgs: no error, an undefined
\* flag, a missing target, a --proto value that parseFlags rejects
AppRunResults ==
    { <<>>,
      <<"flag provided but not defined", ": -", "zz">>,
      <<"target URL required">>,
      <<"invalid protocol: ", "ftp", " (must be auto, http, or https)">> }

\* strings.Contains on a text kept as fragments
TextContains(parts, substr) == \E i \in 1..Len(parts) : parts[i] = substr

extractFlagName(parts) ==
    IF TextContains(parts, "flag provided but not defined") /\ Len(parts) >= 3
         /\ parts[2] = ": -"
      THEN "-" \o parts[3]
      ELSE "unknown"

UnknownFlagError(flag) == [type |-> "UnknownFlagError", Flag |-> flag]

\* cli.ParseArgs, lines 37-47: the error it returns for app.Run's result
ParseArgs(runErr) ==
    IF runErr = <<>> THEN Nil
    ELSE IF TextContains(runErr, "flag provided but not defined")
              \/ TextContains(runErr, "unknown flag")
      THEN UnknownFlagError(extractFlagName(runErr))
    ELSE [type |-> "error", text |-> Join(runErr)]

\* the option values explored
Options ==
    [Target : Targets, Proto : Protos, Method : Methods, Data : Datas,
     DataRaw : {""}, Head : {FALSE}, Insecure : BOOLEAN, StrictSSL : BOOLEAN,
     CACert : CACerts, Cert : Certs, Key : Keys,
     Timeout : UserTimeouts, ConnectTimeout : UserConnectTimeouts]

\* the state when main() starts with the command line standing for options o
InitWith(optionSet) ==
    /\ pc = "main"
    /\ opts \in optionSet
    /\ parsedTarget = NilTarget
    /\ httpResult = NilResult
    /\ probeResult = NilResult
    /\ attempts = <<>>
    /\ openHandles = {}
    /\ output = NilResult
    /\ exitCode = -1
    /\ finalErr = Nil
    /\ detectErr = Nil

Init == InitWith(Options)

Handles(r) == IF r.Response.nil THEN {} ELSE {r.Response.from}

\* the log entry of one probe attempt: how it was made and what it returned
Logged(p) ==
    p.attempt @@ [status |-> p.result.StatusCode, err |-> p.result.Error,
                  elapsed |-> p.result.Duration,
                  gotResponse |-> ~p.result.Response.nil]

\* main(), lines 20-24: cli.ParseArgs; runErr is what app.Run said
MainParseArgs ==
    /\ pc = "main"
    /\ \E runErr \in AppRunResults :
         LET err == ParseArgs(runErr) IN
         IF err # Nil
           THEN /\ exitCode' = MapErrorToExitCode(err)
                /\ finalErr' = err
                /\ pc' = "done"
           ELSE /\ pc' = "start"
                /\ UNCHANGED <<exitCode, finalErr>>
    /\ UNCHANGED <<opts, parsedTarget, httpResult, probeResult, attempts, openHandles, output,
                   detectErr>>

\* variant: every call is launched when the invocation starts
Now_AtLaunch(log) == 0

\* time.Now() when a call starts: the calls of an invocation follow one
\* another, so the clock stands where the previous call returned
Now(log) == IF log = <<>> THEN 0 ELSE log[Len(log)].end

\* an attempt with the time client.Do was entered, the time it returned and
\* the deadline of the attempt's own context
Timed(log, a) ==
    a @@ [start |-> Now(log), end |-> Now(log) + a.elapsed,
          deadline |-> Now(log) + a.ctxTimeout]

\* run(), step 1
RunParseTarget ==
    /\ pc = "start"
    /\ LET r == ParseTarget(opts.Target) IN
       IF r.err # Nil
         THEN /\ exitCode' = MapErrorToExitCode(r.err)
              /\ finalErr' = r.err
              /\ pc' = "done"
              /\ UNCHANGED parsedTarget
         ELSE /\ parsedTarget' = r.result
              /\ pc' = "detect"
              /\ UNCHANGED <<exitCode, finalErr>>
    /\ UNCHANGED <<opts, httpResult, probeResult, attempts, openHandles, output, detectErr>>

\* DetectProtocol, manual mode
DetectManual ==
    /\ pc = "detect"
    /\ ManualMode(opts)
    /\ \E oc \in ProbeOutcomes(parsedTarget, opts, opts.Proto, ApplyTimeouts(opts)) :
         LET p == probeProtocol(parsedTarget, opts, opts.Proto, oc) IN
         /\ probeResult' = p.result
         /\ detectErr' = p.result.Error
         /\ attempts' = Append(attempts, Timed(attempts, Logged(p)))
         /\ openHandles' = openHandles \cup Handles(p.result)
    /\ pc' = "probed"
    /\ UNCHANGED <<opts, parsedTarget, httpResult, output, exitCode, finalErr>>

\* DetectProtocol, auto mode: the HTTP attempt and the test of its result
DetectAutoHTTP ==
    /\ pc = "detect"
    /\ ~ManualMode(opts)
    /\ \E oc \in ProbeOutcomes(parsedTarget, opts, "http", AutoHTTPTimeout) :
         LET p == probeProtocolWithTimeout(parsedTarget, opts, "http", AutoHTTPTimeout, oc) IN
         /\ httpResult' = p.result
         /\ detectErr' = Nil
         /\ attempts' = Append(attempts, Timed(attempts, Logged(p)))
         /\ openHandles' = openHandles \cup Handles(p.result)
         /\ IF HTTPSucceeded(p.result)
              THEN probeResult' = p.result /\ pc' = "probed"
              ELSE pc' = "fallback" /\ UNCHANGED probeResult
    /\ UNCHANGED <<opts, parsedTarget, output, exitCode, finalErr>>

\* DetectProtocol, auto mode: the HTTPS attempt, whose result is returned
DetectAutoHTTPS ==
    /\ pc = "fallback"
    /\ \E oc \in ProbeOutcomes(parsedTarget, opts, "https", AutoHTTPSTimeout) :
         LET p == probeProtocolWithTimeout(parsedTarget, opts, "https", AutoHTTPSTimeout, oc) IN
         /\ probeResult' = AutoFinalResult(httpResult, p.result)
         /\ detectErr' = Nil
         /\ attempts' = Append(attempts, Timed(attempts, Logged(p)))
         /\ openHandles' = openHandles \cup Handles(p.result)
    /\ pc' = "probed"
    /\ UNCHANGED <<opts, parsedTarget, httpResult, output, exitCode, finalErr>>

\* run(), step 2, lines 41-45: DetectProtocol returned an error
RunDetectFailed ==
    /\ pc = "probed"
    /\ detectErr # Nil
    /\ exitCode' = MapErrorToExitCode(detectErr)
    /\ finalErr' = detectErr
    /\ pc' = "done"
    /\ UNCHANGED <<opts, parsedTarget, httpResult, probeResult, attempts, openHandles, output,
                   detectErr>>

\* run(), step 2, lines 47-51: the probe result carries an error
RunProbeFailed ==
    /\ pc = "probed"
    /\ detectErr = Nil
    /\ probeResult.Error # Nil
    /\ exitCode' = MapErrorToExitCode(probeResult.Error)
    /\ finalErr' = probeResult.Error
    /\ pc' = "done"
    /\ UNCHANGED <<opts, parsedTarget, httpResult, probeResult, attempts, openHandles, output,
                   detectErr>>

OpName(method) ==
    CASE method = "GET" -> "Get" [] method = "POST" -> "Post" [] method = "HEAD" -> "Head"
      [] method = "PUT" -> "Put" [] OTHER -> method

\* variant: a scheme written in the target survives detection
ResolveScheme_KeepExplicit(pt, r) ==
    IF pt.HasExplicitProto THEN pt ELSE [pt EXCEPT !.URL.Scheme = r.Protocol]

\* run(), step 3 (line 54): the target takes the detected scheme
ResolveScheme(pt, r) == [pt EXCEPT !.URL.Scheme = r.Protocol]

\* variant: the duration is reset together with status and response
UpdateResult_ResetDuration(r, resp) ==
    [r EXCEPT !.Response = resp, !.StatusCode = resp.StatusCode, !.Duration = 0]

\* variant: the probe's response and status stay in the result
UpdateResult_KeepProbe(r, resp) == r

\* run(), lines 86-87: the result takes the real response and its status
UpdateResult(r, resp) == [r EXCEPT !.Response = resp, !.StatusCode = resp.StatusCode]

\* the error handler.WriteResponse returns when stdout cannot be written
WriteError == [type |-> "wrapError", text |-> "write failed"]

\* run(), steps 3-6: the real request on the detected scheme and the output
RunRealRequest ==
    /\ pc = "probed"
    /\ detectErr = Nil
    /\ probeResult.Error = Nil
    /\ LET pt == ResolveScheme(parsedTarget, probeResult)
           timeout == ApplyTimeouts(opts)
           nt == NewTransport(opts, pt)
           method == BuildMethod(opts)
           att == [kind |-> "real", scheme |-> pt.URL.Scheme, method |-> method,
                   body |-> BuildBody(opts), url |-> URLString(pt.URL),
                   ctxTimeout |-> timeout, clientTimeout |-> timeout,
                   dialTimeout |-> nt.tr.DialTimeout,
                   handshakeTimeout |-> nt.tr.TLSHandshakeTimeout,
                   skipVerify |-> nt.tr.InsecureSkipVerify,
                   transportErr |-> nt.err, dispatched |-> TRUE]
       IN
       /\ parsedTarget' = pt
       /\ IF ~NewRequestOk(pt.URL)
            THEN /\ exitCode' = MapErrorToExitCode([type |-> "wrapError",
                                                    text |-> "failed to create request"])
                 /\ finalErr' = [type |-> "wrapError", text |-> "failed to create request"]
                 /\ UNCHANGED <<probeResult, attempts, output>>
          ELSE IF nt.err # Nil
            THEN /\ exitCode' = MapErrorToExitCode(nt.err)
                 /\ finalErr' = nt.err
                 /\ UNCHANGED <<probeResult, attempts, output>>
          ELSE \E oc \in Outcomes(pt, pt.URL.Scheme, nt.tr, timeout) :
                 IF oc.kind = "error"
                      THEN /\ attempts' = Append(attempts, Timed(attempts,
                                  att @@ [status |-> 0, elapsed |-> oc.elapsed, gotResponse |-> FALSE,
                                          err |-> URLErr(OpName(method), pt.URL, oc),
                                          raw |-> URLErr(OpName(method), pt.URL, oc)]))
                           /\ exitCode' = MapErrorToExitCode(URLErr(OpName(method), pt.URL, oc))
                           /\ finalErr' = URLErr(OpName(method), pt.URL, oc)
                           /\ UNCHANGED <<probeResult, output>>
                      ELSE \E writeOk \in BOOLEAN :
                           /\ attempts' = Append(attempts, Timed(attempts,
                                  att @@ [status |-> oc.status, elapsed |-> oc.elapsed, gotResponse |-> TRUE,
                                          err |-> Nil, raw |-> Nil]))
                           /\ probeResult' =
                                UpdateResult(probeResult,
                                             [nil |-> FALSE, StatusCode |-> oc.status,
                                              from |-> "real"])
                           /\ output' = probeResult'
                           /\ exitCode' = IF writeOk THEN ExitSuccess ELSE ExitConnectFailed
                           /\ finalErr' = IF writeOk THEN Nil ELSE WriteError
    /\ pc' = "done"
    \* the real response body is closed by the deferred resp.Body.Close()
    /\ UNCHANGED <<opts, httpResult, openHandles, detectErr>>

Next ==
    \/ MainParseArgs
    \/ RunParseTarget
    \/ DetectManual
    \/ DetectAutoHTTP
    \/ DetectAutoHTTPS
    \/ RunDetectFailed
    \/ RunProbeFailed
    \/ RunRealRequest

Spec == Init /\ [][Next]_vars

\* the options ParseArgs starts from (lines 14-17), the flags left unset
DefaultOptions ==
    [Target |-> <<>>, Proto |-> "auto", Method |-> "", Data |-> "", DataRaw |-> "",
     Head |-> FALSE, Insecure |-> FALSE, StrictSSL |-> FALSE, CACert |-> "",
     Cert |-> "", Key |-> "", Timeout |-> DefaultTimeout, ConnectTimeout |-> 0]

\* Target normalisation alone: every target made of an optional scheme
\* prefix and up to MaxTailLen further characters, parsed by run() step 1.
MaxTailLen == 3
TailAlphabet == {"h", ":", "8", "/"}
SchemePrefixes ==
    { <<>>,
      <<"h", "t", "t", "p", ":", "/", "/">>,
      <<"H", "T", "T", "P", ":", "/", "/">>,
      <<"h", "t", "t", "p", "s", ":", "/", "/">> }
ParseInputs ==
    {p \o t : p \in SchemePrefixes,
              t \in UNION {[1..n -> TailAlphabet] : n \in 0..MaxTailLen}}
    \cup {AllTargets[i] : i \in 1..Len(AllTargets)}

ParseOptions == {[DefaultOptions EXCEPT !.Target = t] : t \in ParseInputs}

InitParse == InitWith(ParseOptions)

NextParse ==
    \/ MainParseArgs
    \/ RunParseTarget

SpecParse == InitParse /\ [][NextParse]_vars

\* Request building: the method and body flags in every combination, on a
\* host name with and without a scheme, in auto and manual mode.
RequestOptions ==
    {[DefaultOptions EXCEPT !.Target = t, !.Proto = pr, !.Method = m, !.Data = d,
                            !.DataRaw = dr, !.Head = hd] :
        t \in {AllTargets[1], AllTargets[2]}, pr \in {"auto", "https"},
        m \in {"", "PUT"}, d \in {"", "d"}, dr \in {"", "r"}, hd \in BOOLEAN}

InitRequest == InitWith(RequestOptions)

SpecRequest == InitRequest /\ [][Next]_vars

-----------------------------------------------------------------------------
(* Properties                                                               *)

AutoMode == opts.Proto \in {"", "auto"}
Probes == {i \in 1..Len(attempts) : attempts[i].kind = "probe"}
Reals == {i \in 1..Len(attempts) : attempts[i].kind = "real"}

\* DetectProtocol has returned to run()
Returned == pc \in {"probed", "done"} /\ Len(attempts) >= 1

\* the target as ParseTarget delivered it, before run() rewrites the scheme
Parsed == ParseTarget(opts.Target).result

\* the URL text a request on scheme sch must carry
ExpectedURL(sch) == sch \o "://" \o Str(Parsed.URL.Host) \o Str(Parsed.URL.Path)

\* C1: in auto mode, when the first (HTTP) probe returns a response without
\* error and with a status in [200, 400), DetectProtocol returns that very
\* result with protocol "http", and no HTTPS attempt is made.
C1_HTTPSuccessIsFinal ==
    (AutoMode /\ Len(attempts) >= 1 /\ attempts[1].err = Nil
        /\ attempts[1].status >= 200 /\ attempts[1].status < 400)
    => /\ pc \in {"probed", "done"}
       /\ attempts[1].kind = "probe" /\ attempts[1].scheme = "http"
       /\ probeResult.Protocol = "http"
       /\ probeResult.Error = Nil
       /\ probeResult.Duration = attempts[1].elapsed
       /\ (pc = "probed" => probeResult = httpResult
                            /\ probeResult.StatusCode = attempts[1].status)
       /\ Cardinality(Probes) = 1
       /\ \A i \in 1..Len(attempts) : attempts[i].scheme # "https"

C1_Witness ==
    /\ AutoMode /\ pc = "done" /\ exitCode = ExitSuccess
    /\ Len(attempts) = 2
    /\ attempts[1].kind = "probe" /\ attempts[1].status = 399
    /\ attempts[2].kind = "real" /\ attempts[2].scheme = "http"

\* C2: in auto mode the first attempt is scheme http with a 3 second timeout
\* (context, client and, once a transport exists, dial and handshake), and
\* when it ends in any error or in a status below 200 or from 400 on,
\* DetectProtocol does not return before exactly one https attempt with a
\* 7 second timeout was made; the user's timeouts change neither value.
C2_HTTPFirstThenHTTPS ==
    (AutoMode /\ Len(attempts) >= 1)
    => /\ attempts[1].kind = "probe" /\ attempts[1].scheme = "http"
       /\ attempts[1].ctxTimeout = 3 /\ attempts[1].clientTimeout = 3
       /\ (attempts[1].transportErr = Nil
             => attempts[1].dialTimeout = 3 /\ attempts[1].handshakeTimeout = 3)
       /\ (attempts[1].err # Nil \/ attempts[1].status < 200 \/ attempts[1].status >= 400)
             => IF pc \in {"probed", "done"}
                  THEN /\ Len(attempts) >= 2
                       /\ attempts[2].kind = "probe" /\ attempts[2].scheme = "https"
                       /\ attempts[2].ctxTimeout = 7 /\ attempts[2].clientTimeout = 7
                       /\ (attempts[2].transportErr = Nil
                             => attempts[2].dialTimeout = 7
                                /\ attempts[2].handshakeTimeout = 7)
                       /\ Cardinality(Probes) = 2
                  ELSE pc = "fallback" /\ Len(attempts) = 1

C2_Witness ==
    /\ AutoMode /\ opts.Timeout = 5 /\ opts.ConnectTimeout = 2
    /\ Len(attempts) >= 2
    /\ attempts[1].dispatched /\ attempts[1].status = 500
    /\ attempts[2].kind = "probe" /\ attempts[2].scheme = "https"
    /\ attempts[2].dispatched /\ attempts[2].dialTimeout = 7

\* C3: in auto mode, once the HTTPS attempt was made its outcome is the final
\* ProbeResult: protocol "https", its error (or none), its status and elapsed
\* time; there is no third probe, the HTTP result is not returned even when
\* HTTP had answered and HTTPS failed, and the HTTPS error decides the exit.
C3_HTTPSOutcomeIsFinal ==
    (AutoMode /\ Len(attempts) >= 2 /\ attempts[2].kind = "probe")
    => /\ pc \in {"probed", "done"}
       /\ Cardinality(Probes) = 2
       /\ probeResult.Protocol = "https"
       /\ probeResult.Error = attempts[2].err
       /\ probeResult.Duration = attempts[2].elapsed
       /\ (pc = "probed" => probeResult.StatusCode = attempts[2].status
                            /\ probeResult.Response.nil = ~attempts[2].gotResponse)
       /\ (attempts[2].err # Nil /\ pc = "done"
             => Len(attempts) = 2 /\ exitCode = MapErrorToExitCode(attempts[2].err))

C3_Witness ==
    /\ AutoMode /\ pc = "done" /\ Len(attempts) = 2
    /\ attempts[1].err = Nil /\ attempts[1].status = 400
    /\ attempts[2].dispatched /\ attempts[2].err # Nil /\ attempts[2].err.type = "ConnectionError"
    /\ probeResult.Protocol = "https" /\ exitCode = ExitConnectFailed

\* C4: with --proto http or https exactly one probe attempt is made, on the
\* requested scheme; ProbeResult.protocol is the requested scheme in every
\* outcome; an attempt that obtained no response leaves a non-nil error and
\* ends the invocation; the other scheme is never attempted.
C4_ManualSingleAttempt ==
    (opts.Proto \in {"http", "https"} /\ Len(attempts) >= 1)
    => /\ pc \in {"probed", "done"}
       /\ attempts[1].kind = "probe"
       /\ Cardinality(Probes) = 1
       /\ probeResult.Protocol = opts.Proto
       /\ \A i \in 1..Len(attempts) : attempts[i].scheme = opts.Proto
       /\ (~attempts[1].gotResponse
             => /\ probeResult.Error # Nil
                /\ Len(attempts) = 1
                /\ (pc = "done" => exitCode # ExitSuccess /\ output = NilResult))

C4_Witness ==
    /\ opts.Proto = "https" /\ pc = "done" /\ Len(attempts) = 1
    /\ attempts[1].dispatched /\ ~attempts[1].gotResponse
    /\ probeResult.Protocol = "https" /\ probeResult.Error # Nil
    /\ exitCode # ExitSuccess

\* C5: when --proto is http or https and the target was written with another
\* scheme, every request of the invocation (the probe and the real request)
\* goes to the --proto scheme, not to the scheme written in the target.
C5_ProtoWinsOverTargetScheme ==
    (opts.Proto \in {"http", "https"} /\ ~Parsed.nil /\ Parsed.HasExplicitProto
        /\ Parsed.URL.Scheme # opts.Proto)
    => /\ \A i \in 1..Len(attempts) :
            attempts[i].scheme = opts.Proto /\ attempts[i].url = ExpectedURL(opts.Proto)
       /\ (Reals # {} => parsedTarget.URL.Scheme = opts.Proto)

C5_Witness ==
    /\ opts.Proto = "http" /\ Parsed.HasExplicitProto /\ Parsed.URL.Scheme = "https"
    /\ pc = "done" /\ Len(attempts) = 2
    /\ attempts[1].kind = "probe" /\ attempts[1].dispatched
    /\ attempts[2].kind = "real" /\ attempts[2].url = ExpectedURL("http")

\* C6: when the target string contained scheme:// (HasExplicitProto), no
\* protocol probing occurs: no probe attempt is made and every request uses
\* the scheme written in the target.
C6_ExplicitSchemeNoProbing ==
    (~Parsed.nil /\ Parsed.HasExplicitProto)
    => \A i \in 1..Len(attempts) :
         attempts[i].kind # "probe" /\ attempts[i].scheme = Parsed.URL.Scheme

C8_SkipVerifyTable ==
    \A i \in 1..Len(attempts) :
      attempts[i].transportErr = Nil
        => attempts[i].skipVerify
             = (IF opts.Insecure THEN TRUE
                ELSE IF parsedTarget.IsIP /\ ~opts.StrictSSL THEN TRUE
                ELSE FALSE)

C8_Witness ==
    /\ Len(attempts) >= 1 /\ attempts[1].transportErr = Nil /\ attempts[1].dispatched
    /\ opts.Insecure /\ opts.StrictSSL /\ parsedTarget.IsIP
    /\ attempts[1].skipVerify

\* C9 as stated: with exactly one of --cert / --key the transport construction
\* fails with a TLS error and nothing is dispatched; with neither it succeeds.
C9_CertKeyPairing_Original ==
    \A i \in 1..Len(attempts) :
      /\ ((opts.Cert # "") # (opts.Key # "")
            => attempts[i].transportErr # Nil /\ attempts[i].transportErr.type = "TLSError"
               /\ ~attempts[i].dispatched)
      /\ (opts.Cert = "" /\ opts.Key = "" => attempts[i].transportErr = Nil)

\* C9 (amended): with exactly one of --cert / --key the transport construction
\* fails with a TLS error and nothing is dispatched; with neither it succeeds
\* unless a CA certificate path is set whose file cannot be read or parsed;
\* is_ip_literal, strict_ssl and insecure play no part.
C9_CertKeyPairing ==
    \A i \in 1..Len(attempts) :
      /\ ((opts.Cert # "") # (opts.Key # "")
            => attempts[i].transportErr # Nil /\ attempts[i].transportErr.type = "TLSError"
               /\ ~attempts[i].dispatched)
      /\ (opts.Cert = "" /\ opts.Key = ""
            => (attempts[i].transportErr = Nil
                  <=> (opts.CACert = ""
                         \/ (ReadFileOk(opts.CACert) /\ AppendCertsFromPEMOk(opts.CACert)))))

C9_Witness ==
    /\ Len(attempts) >= 1
    /\ opts.Cert # "" /\ opts.Key = "" /\ opts.CACert = "" /\ opts.Insecure
    /\ attempts[1].transportErr # Nil /\ attempts[1].transportErr.type = "TLSError"
    /\ ~attempts[1].dispatched
    /\ pc = "done" /\ exitCode = ExitTLSError

\* C10: normalisation errors and trust-policy (TLS configuration) errors
\* abort the invocation at once: after a parse error nothing is attempted,
\* and an attempt that failed to build its transport is the last attempt,
\* so in auto mode no HTTPS attempt follows such an HTTP attempt.
C10_FatalErrorsAbort ==
    /\ (ParseTarget(opts.Target).err # Nil => attempts = <<>>)
    /\ \A i \in 1..Len(attempts) :
         attempts[i].transportErr # Nil => i = Len(attempts)

-----------------------------------------------------------------------------
(* Real request, exit codes, target normalisation, request method           *)

LastAttempt == attempts[Len(attempts)]

ErrorSamples ==
    { Nil, URLParseError("", "target cannot be empty"), NoRouteError("h", "no such host"),
      ConnectionError("h", "8", "connection refused"), TimeoutError(0, "request"),
      TLSError("h", "certificate"), UnknownFlagError("-zz"),
      WriteError, [type |-> "error", text |-> "target URL required"] }

\* the table of exit codes by error kind
ExitTable(err) ==
    CASE err.type = "nil" -> 0
      [] err.type = "UnknownFlagError" -> 2
      [] err.type = "URLParseError" -> 3
      [] err.type = "NoRouteError" -> 6
      [] err.type = "ConnectionError" -> 7
      [] err.type = "TimeoutError" -> 28
      [] err.type = "TLSError" -> 35
      [] OTHER -> 7

\* C12: the exit status is a fixed function of the kind of the final error:
\* none 0, unknown flag 2, URLParseError 3, NoRouteError 6, ConnectionError 7,
\* TimeoutError 28, TLSError 35, any other error value 7.
C12_ExitCodeTable ==
    /\ \A e \in ErrorSamples : MapErrorToExitCode(e) = ExitTable(e)
    /\ pc = "done" => exitCode = ExitTable(finalErr)
    /\ pc # "done" => exitCode = -1 /\ finalErr = Nil

C12_Witness ==
    /\ pc = "done" /\ finalErr.type = "UnknownFlagError" /\ finalErr.Flag = "-zz"
    /\ exitCode = 2

\* C13: when the last request of the invocation, probe or real, timed out,
\* the exit code is 28.
C13_TimeoutExits28 ==
    (pc = "done" /\ Len(attempts) >= 1 /\ LastAttempt.raw # Nil /\ LastAttempt.raw.timeout)
    => exitCode = 28

\* the parts of a raw target as a reader sees them: the scheme before the
\* first "://", the authority up to the next "/", the host before its port
SepIndex(input) ==
    IF StringsContains(input, <<":", "/", "/">>)
      THEN CHOOSE i \in 1..Len(input) :
             /\ i + 2 <= Len(input) /\ SubSeq(input, i, i + 2) = <<":", "/", "/">>
             /\ \A j \in 1..(i - 1) : SubSeq(input, j, j + 2) # <<":", "/", "/">>
      ELSE 0
InputScheme(input) == SubSeq(input, 1, SepIndex(input) - 1)
AfterScheme(input) ==
    IF SepIndex(input) # 0 THEN From(input, SepIndex(input) + 3) ELSE input
HasPathSegment(input) == Index(AfterScheme(input), "/") # 0
InputAuthority(input) ==
    IF HasPathSegment(input)
      THEN SubSeq(AfterScheme(input), 1, Index(AfterScheme(input), "/") - 1)
      ELSE AfterScheme(input)
InputHost(input) ==
    IF LastIndex(InputAuthority(input), ":") # 0
      THEN SubSeq(InputAuthority(input), 1, LastIndex(InputAuthority(input), ":") - 1)
      ELSE InputAuthority(input)
StartsWithScheme(input) ==
    /\ SepIndex(input) > 1
    /\ input[1] \in Letters
    /\ \A i \in 1..(SepIndex(input) - 1) : input[i] \in Letters \cup Digits \cup {"+", "-", "."}

\* a scheme as written, with its capital letters turned into small ones
LowerCased(s) ==
    [i \in 1..Len(s) |->
        CASE s[i] = "H" -> "h" [] s[i] = "T" -> "t" [] s[i] = "P" -> "p"
          [] s[i] = "S" -> "s" [] OTHER -> s[i]]

\* run() has called ParseTarget
ParseRan == pc \notin {"main", "start"} /\ finalErr.type \notin {"UnknownFlagError", "error"}
Accepted == ParseRan /\ ~parsedTarget.nil
Rejected ==
    /\ pc = "done" /\ parsedTarget = NilTarget /\ attempts = <<>>
    /\ finalErr.type = "URLParseError" /\ exitCode = 3

\* the empty target is rejected with a URLParseError and exit code 3
EmptyTargetRejected == (ParseRan /\ opts.Target = <<>>) => Rejected

\* C14: ParseTarget rejects the empty string, and every input whose host
\* part is empty, with a URLParseError, a nil result and exit code 3.
C14_EmptyHostRejected ==
    (ParseRan /\ (opts.Target = <<>> \/ InputHost(opts.Target) = <<>>)) => Rejected

\* C15: every accepted target has a path that starts with "/", and the path
\* is exactly "/" when the input has no path segment, with or without scheme.
C15_PathStartsWithSlash ==
    Accepted
    => /\ parsedTarget.URL.Path # <<>>
       /\ parsedTarget.URL.Path[1] = "/"
       /\ (~HasPathSegment(opts.Target) => parsedTarget.URL.Path = <<"/">>)

\* the part of C15 about targets without a scheme
SchemelessPathStartsWithSlash ==
    (Accepted /\ SepIndex(opts.Target) = 0)
    => /\ parsedTarget.URL.Path # <<>> /\ parsedTarget.URL.Path[1] = "/"
       /\ (~HasPathSegment(opts.Target) => parsedTarget.URL.Path = <<"/">>)

\* C16 as stated: an accepted target containing "://" is marked explicit and
\* keeps the scheme exactly as written; one without "://" is not marked and
\* gets the scheme "http".
C16_SchemePreserved_Original ==
    Accepted
    => IF SepIndex(opts.Target) # 0
         THEN /\ parsedTarget.HasExplicitProto
              /\ parsedTarget.URL.Scheme = Str(InputScheme(opts.Target))
         ELSE /\ ~parsedTarget.HasExplicitProto
              /\ parsedTarget.URL.Scheme = "http"

\* C16: an accepted target containing "://" is marked explicit, and when it
\* starts with a scheme its output scheme is that scheme in lower case; one
\* without "://" is not marked and gets the scheme "http".
C16_SchemePreserved ==
    Accepted
    => IF SepIndex(opts.Target) # 0
         THEN /\ parsedTarget.HasExplicitProto
              /\ StartsWithScheme(opts.Target)
                   => parsedTarget.URL.Scheme = Str(LowerCased(InputScheme(opts.Target)))
         ELSE /\ ~parsedTarget.HasExplicitProto
              /\ parsedTarget.URL.Scheme = "http"

C16_Witness ==
    /\ Accepted /\ opts.Target = AllTargets[10]
    /\ parsedTarget.HasExplicitProto /\ parsedTarget.URL.Scheme = "http"

-----------------------------------------------------------------------------
(* Request method, probe handles, probe error classification                *)

\* C17: a request built with -I/--head has method HEAD, whatever -X, -d and
\* --data-raw are.
C17_HeadFlagGivesHEAD ==
    \A i \in Reals : opts.Head => attempts[i].method = "HEAD"

\* -I/--head alone, without -X, -d and --data-raw, gives HEAD
HeadAloneGivesHEAD ==
    \A i \in Reals :
        (opts.Head /\ opts.Method = "" /\ opts.Data = "" /\ opts.DataRaw = "")
        => attempts[i].method = "HEAD"

\* C18: no probe response is left open once its attempt has returned: not
\* when the next attempt starts, nor when the real request starts, nor when
\* the invocation ends.
C18_ProbeHandlesReleased ==
    \A h \in openHandles : h \notin {"probe-http", "probe-https"}

\* C19: a probe error that reports itself as a timeout becomes a
\* TimeoutError whatever its text; the attempt has returned after its own
\* timeout and the result that goes with it carries that TimeoutError.
C19_TimeoutClassifiedFirst ==
    \A i \in Probes :
        (attempts[i].raw # Nil /\ attempts[i].raw.timeout)
        => /\ attempts[i].err.type = "TimeoutError"
           /\ attempts[i].err.Phase = "request"
           /\ attempts[i].elapsed = attempts[i].clientTimeout
           /\ (i = Len(attempts) /\ pc \in {"probed", "done"})
                => /\ probeResult.Error.type = "TimeoutError"
                   /\ probeResult.Protocol = attempts[i].scheme
                   /\ pc = "done" => exitCode = 28 /\ finalErr.type = "TimeoutError"

C19_Witness ==
    /\ pc = "done" /\ AutoMode /\ Len(attempts) = 2
    /\ attempts[1].raw # Nil /\ attempts[1].raw.timeout /\ attempts[1].elapsed = 3
    /\ attempts[2].raw # Nil /\ attempts[2].raw.timeout /\ attempts[2].elapsed = 7
    /\ TextContains(attempts[2].raw.parts, "context deadline exceeded")
    /\ attempts[2].err.type = "TimeoutError" /\ exitCode = 28

\* C20: a probe error that is no timeout, whose text contains "no such host"
\* or "name resolution" and not "connection refused", becomes a NoRouteError
\* carrying the target's host, and ends the invocation with exit code 6.
C20_NoSuchHostIsNoRoute ==
    \A i \in Probes :
        (/\ attempts[i].raw # Nil /\ ~attempts[i].raw.timeout
         /\ (TextContains(attempts[i].raw.parts, "no such host")
               \/ TextContains(attempts[i].raw.parts, "name resolution"))
         /\ ~TextContains(attempts[i].raw.parts, "connection refused"))
        => /\ attempts[i].err.type = "NoRouteError"
           /\ attempts[i].err.Host = Str(Hostname(Parsed.URL))
           /\ (i = Len(attempts) /\ pc = "done") => exitCode = 6

\* C21: a probe error that is no timeout, whose text contains "certificate",
\* "tls" or "ssl" and matches neither the connection-refused nor the
\* name-resolution rule, becomes a TLSError carrying the target's host, and
\* ends the invocation with exit code 35.
C21_TLSTextIsTLSError ==
    \A i \in Probes :
        (/\ attempts[i].raw # Nil /\ ~attempts[i].raw.timeout
         /\ (TextContains(attempts[i].raw.parts, "certificate")
               \/ TextContains(attempts[i].raw.parts, "tls")
               \/ TextContains(attempts[i].raw.parts, "ssl"))
         /\ ~TextContains(attempts[i].raw.parts, "connection refused")
         /\ ~TextContains(attempts[i].raw.parts, "no such host")
         /\ ~TextContains(attempts[i].raw.parts, "name resolution"))
        => /\ attempts[i].err.type = "TLSError"
           /\ attempts[i].err.Host = Str(Hostname(Parsed.URL))
           /\ (i = Len(attempts) /\ pc = "done") => exitCode = 35

\* C22: DetectProtocol always returns a ProbeResult and never an error beside
\* it; a failure of whatever kind is found in the result's Error only.
C22_DetectNeverRaises ==
    Returned => ~probeResult.nil /\ detectErr = Nil

\* in auto mode DetectProtocol returns no error beside its result
AutoDetectNeverRaises ==
    (Returned /\ AutoMode) => ~probeResult.nil /\ detectErr = Nil

\* the timeout a probe attempt is made with
AttemptTimeout(i) ==
    IF opts.Proto \in {"http", "https"}
      THEN IF opts.Timeout > 0 THEN opts.Timeout ELSE 10
      ELSE IF i = 1 THEN 3 ELSE 7

\* C23: every probe attempt bounds both the connection establishment (dial,
\* TLS handshake) and the whole exchange (context, client) by its own
\* timeout: 3 and 7 seconds in auto mode, the request timeout or 10 seconds
\* in manual mode, whatever --connect-timeout is; and every attempt has a
\* transport of its own, built with the trust policy of the options.
C23_AttemptTimeouts ==
    \A i \in Probes :
        /\ attempts[i].ctxTimeout = AttemptTimeout(i)
        /\ attempts[i].clientTimeout = AttemptTimeout(i)
        /\ attempts[i].transportErr = Nil
             => /\ attempts[i].dialTimeout = AttemptTimeout(i)
                /\ attempts[i].handshakeTimeout = AttemptTimeout(i)
                /\ attempts[i].skipVerify
                     = ((Parsed.IsIP /\ ~opts.StrictSSL) \/ opts.Insecure)
        /\ attempts[i].transportErr # Nil => ~attempts[i].dispatched

C23_Witness ==
    /\ opts.Proto = "https" /\ opts.Timeout = 0 /\ opts.ConnectTimeout = 2
    /\ Len(attempts) >= 1 /\ attempts[1].dispatched
    /\ attempts[1].dialTimeout = 10 /\ attempts[1].clientTimeout = 10

\* the last probe attempt made
LastProbe == attempts[CHOOSE i \in Probes : \A j \in Probes : j <= i]

\* C24: the Duration of the result is the elapsed time of the last probe
\* attempt alone; after a fallback it is the HTTPS attempt's and holds
\* nothing of the time the HTTP attempt took.
C24_DurationOfFinalAttempt ==
    Returned
    => /\ probeResult.Duration = LastProbe.elapsed
       /\ probeResult.Duration = LastProbe.end - LastProbe.start
       /\ probeResult.Protocol = LastProbe.scheme

C24_Witness ==
    /\ AutoMode /\ pc = "done" /\ Len(attempts) = 3
    /\ attempts[1].raw # Nil /\ attempts[1].raw.timeout /\ attempts[1].elapsed = 3
    /\ attempts[2].scheme = "https" /\ attempts[2].gotResponse /\ attempts[2].elapsed = 1
    /\ probeResult.Duration = 1 /\ output.Duration = 1

-----------------------------------------------------------------------------
(* Trust policy errors, termination, frame conditions                       *)

BadCACert == opts.CACert # "" /\ ~(ReadFileOk(opts.CACert) /\ AppendCertsFromPEMOk(opts.CACert))

\* C26: with a CA certificate file that cannot be read or parsed every
\* transport construction fails with a TLSError and nothing is sent, also
\* with --insecure and also for an IP target without --strict-ssl; the
\* invocation ends with exit code 35.
C26_BadCACertAlwaysFatal ==
    BadCACert
    => /\ \A i \in 1..Len(attempts) :
             /\ attempts[i].transportErr.type = "TLSError"
             /\ attempts[i].err = attempts[i].transportErr
             /\ ~attempts[i].dispatched
       /\ Reals = {}
       /\ (pc = "done" /\ attempts # <<>>) => exitCode = 35

C26_Witness ==
    /\ opts.CACert = "garbage.pem" /\ opts.Insecure /\ ~opts.StrictSSL /\ Parsed.IsIP
    /\ opts.Proto = "https" /\ pc = "done" /\ Len(attempts) = 1
    /\ attempts[1].transportErr.type = "TLSError" /\ exitCode = 35

\* position of a step in the fixed order of main() and run()
Rank(p) ==
    CASE p = "main" -> 0 [] p = "start" -> 1 [] p = "detect" -> 2
      [] p = "fallback" -> 3 [] p = "probed" -> 4 [] p = "done" -> 5

ExitCodes == {0, 2, 3, 6, 7, 28, 35}

\* the step that is due can be taken: the call it makes has an outcome
CanStep ==
    CASE pc = "main" -> AppRunResults # {}
      [] pc = "start" -> TRUE
      [] pc = "detect" ->
           IF opts.Proto \in {"http", "https"}
             THEN ProbeOutcomes(parsedTarget, opts, opts.Proto, ApplyTimeouts(opts)) # {}
             ELSE ProbeOutcomes(parsedTarget, opts, "http", 3) # {}
      [] pc = "fallback" -> ProbeOutcomes(parsedTarget, opts, "https", 7) # {}
      [] pc = "probed" ->
           \/ detectErr # Nil
           \/ probeResult.Error # Nil
           \/ LET pt == [parsedTarget EXCEPT !.URL.Scheme = probeResult.Protocol]
                   nt == NewTransport(opts, pt)
               IN \/ ~NewRequestOk(pt.URL)
                  \/ nt.err # Nil
                  \/ Outcomes(pt, pt.URL.Scheme, nt.tr, ApplyTimeouts(opts)) # {}
      [] OTHER -> FALSE

\* at most two probes, then at most one real request, and an exit code
\* exactly when the invocation has ended; before that a step can be taken
BoundedRun ==
    /\ Cardinality(Probes) <= 2 /\ Cardinality(Reals) <= 1
    /\ \A i \in Reals : i = Len(attempts) /\ \A j \in 1..(i - 1) : j \in Probes
    /\ output # NilResult => Reals # {}
    /\ IF pc = "done" THEN exitCode \in ExitCodes
       ELSE exitCode = -1 /\ CanStep

\* every step moves forward in the order, keeps what was already logged,
\* and after a failed last probe nothing but the exit follows
ForwardStep ==
    /\ Rank(pc') > Rank(pc)
    /\ Len(attempts') \in {Len(attempts), Len(attempts) + 1}
    /\ SubSeq(attempts', 1, Len(attempts)) = attempts
    /\ (pc = "probed" /\ LastAttempt.err # Nil)
         => pc' = "done" /\ attempts' = attempts /\ output' = NilResult /\ exitCode' # 0
    /\ (pc = "start" /\ pc' = "done") => attempts' = <<>> /\ exitCode' = 3

\* C27: every invocation ends with an exit code after at most two probe
\* attempts and at most one real request, in the order parse, probes, real
\* request, output; no step is taken twice and a failed step leads
\* directly to the exit.
C27_TerminatesInOrder == []BoundedRun /\ [][ForwardStep]_vars

C27_Witness ==
    /\ pc = "done" /\ exitCode = 0 /\ Cardinality(Probes) = 2 /\ Cardinality(Reals) = 1
    /\ attempts[3].kind = "real" /\ output # NilResult

WellFormedResult(r) ==
    /\ r.Protocol \in {"http", "https"}
    /\ r.Error = Nil <=> ~r.Response.nil
    /\ r.Error # Nil => r.StatusCode = 0

\* C29: every ProbeResult DetectProtocol returns has protocol "http" or
\* "https", has no error exactly when it holds a response, and has status 0
\* whenever it has an error.
C29_ResultWellFormed ==
    /\ pc = "probed" => WellFormedResult(probeResult)
    /\ ~httpResult.nil => WellFormedResult(httpResult)

C29_Witness ==
    /\ pc = "probed" /\ AutoMode /\ Len(attempts) = 2
    /\ attempts[1].gotResponse /\ attempts[1].status = 400
    /\ probeResult.Protocol = "https" /\ probeResult.Error # Nil
    /\ probeResult.Response.nil /\ probeResult.StatusCode = 0

\* what a step may change
FrameStep ==
    /\ opts' = opts
    /\ pc \in {"detect", "fallback"} => parsedTarget' = parsedTarget
    /\ pc = "probed"
         => /\ parsedTarget'.URL.Host = parsedTarget.URL.Host
            /\ parsedTarget'.URL.Path = parsedTarget.URL.Path
            /\ probeResult'.Protocol = probeResult.Protocol
            /\ probeResult'.Duration = probeResult.Duration
            /\ probeResult'.Error = probeResult.Error
            /\ probeResult'.nil = probeResult.nil
            /\ output' # NilResult
                 => /\ output'.Duration = probeResult.Duration
                    /\ output'.Protocol = probeResult.Protocol
                    /\ output'.StatusCode = attempts'[Len(attempts')].status

\* C30: DetectProtocol leaves the options and the parsed target as they
\* were, and the real-request step overwrites only status and response of
\* the result: protocol and duration stay the probe's, so the duration
\* written in the status line is the probe's.
C30_FrameConditions == [][FrameStep]_vars

C30_Witness ==
    /\ pc = "done" /\ output # NilResult /\ Len(attempts) = 2
    /\ attempts[1].kind = "probe" /\ attempts[1].status = 200
    /\ attempts[2].kind = "real" /\ attempts[2].status = 500
    /\ output.StatusCode = 500 /\ output.Duration = attempts[1].elapsed
    /\ output.Protocol = attempts[1].scheme

====
